---- MODULE Spec2Model ----
(***************************************************************************)
(* State-machine model of the xhs-publisher browser clients.               *)
(*                                                                         *)
(*   src/api/static/app.js   backend page: Job Launcher, Preview/Publish   *)
(*                           flow, Session Controller (WebSocket)          *)
(*   src/docs/app.js         cloud page: Settings Store, cloud dispatch    *)
(*   src/api/static/sw.js    Resource Cache of the backend page            *)
(*   src/docs/sw.js          Resource Cache of the cloud page              *)
(*                                                                         *)
(* JavaScript is run-to-completion: one action is one handler run from its *)
(* entry (or from the resumption of an await) to its next await or return. *)
(* A confirm() dialog blocks the handler, so its answer is an input of the *)
(* action.  The markup is not part of the sources: handleManual,           *)
(* handleAuto, handlePublish and triggerAction are taken to be the click   *)
(* handlers of btnManual, btnAuto, btnPublish and btnTrigger, a disabled   *)
(* button dispatches no click, and btnPublish lies inside previewPanel and *)
(* can be clicked only while the panel is active.                          *)
(***************************************************************************)
EXTENDS Integers, Sequences, FiniteSets, TLC

VARIABLES
    page,            \* which client is loaded: "api" or "docs"
    \* ---- src/api/static/app.js: Job Launcher and Preview/Publish flow
    isProcessing,    \* let isProcessing (app.js:7)
    btnManual,       \* #btnManual  [disabled, html]
    btnAuto,         \* #btnAuto    [disabled, html]
    btnPublish,      \* #btnPublish [disabled, html]
    progressActive,  \* #progressWrapper has class "active"
    logPanelActive,  \* #logPanel has class "active"
    previewActive,   \* #previewPanel has class "active"
    previewData,     \* the artifact rendered in the preview panel
    logContainer,    \* #logContainer: the sequence of log entries
    \* ---- src/api/static/app.js: Session Controller
    ws,              \* let ws (app.js:6): the current socket [readyState, events],
                     \* events being the error/close events not yet dispatched
    connectionStatus,\* #connectionStatus text
    statusDot,       \* #statusDot background
    reconnectTimers, \* pending setTimeout(connectWebSocket, 3000): their delays
    heartbeatTimers, \* active setInterval heartbeats: their periods
    progressBar,     \* #progressBar width, in tenths of a percent
    progressText,    \* #progressText, the rounded percentage
    \* ---- src/docs/app.js: Settings Store and cloud dispatch
    storage,         \* localStorage [xhs_repo, xhs_pat], <<>> for a missing key
    repoInput,       \* #repoInput.value
    patInput,        \* #patInput.value
    settingsPanel,   \* #settingsContent [open] and the .arrow text [arrow]
    btnTrigger,      \* #btnTrigger [disabled, html]
    statusMsg,       \* #statusMsg text
    runsView,        \* what #runsList shows
    refreshTimers,   \* pending setTimeout(loadRuns, 3000) timers: their delays
    \* ---- src/api/static/sw.js, src/docs/sw.js: Resource Cache of the page
    swState,         \* the worker: "installing", "installed", "activated", "redundant"
    cacheStorage,    \* CacheStorage: cache name -> the request URLs it holds
    online,          \* the network is available
    lastFetch,       \* the last fetch event [url, online, intercepted, source]
    \* ---- both pages
    toast,           \* #toast [text, show]
    inflight,        \* per request kind and await position: suspended handler runs
    \* ---- history (not program state)
    heartbeat,       \* what the last step's heartbeat callback did: "sent" a
                     \* ping, "skipped" it, or "none" if the step was no heartbeat
    frame,           \* the frame the last step's onmessage received, or NoFrame
    gate             \* how the last handler run got past its entry checks:
                     \*   "invalid"   a validation check failed, it returned
                     \*   "declined"  confirm() was declined, it returned
                     \*   "accepted"  confirm() was accepted
                     \*   "passed"    validated, no confirm() on its path
                     \*   "none"      the step was no click on a submit button

launcherVars == <<isProcessing, btnManual, btnAuto, btnPublish, progressActive,
                  logPanelActive, previewActive, previewData, logContainer>>

sessionVars == <<ws, connectionStatus, statusDot, reconnectTimers, heartbeatTimers,
                 progressBar, progressText, heartbeat, frame>>

cacheVars == <<swState, cacheStorage, online, lastFetch>>

cloudVars == <<storage, repoInput, patInput, settingsPanel, btnTrigger, statusMsg,
               runsView, refreshTimers>>

vars == <<page, launcherVars, sessionVars, cloudVars, cacheVars, toast, inflight, gate>>

(***************************************************************************)
(* Bounds                                                                  *)
(***************************************************************************)
MaxInFlight == 2     \* handler runs of one kind suspended at an await
MaxUrlLen == 2       \* characters typed into #urlInput
MaxTimers == 2       \* pending timers of one kind
MaxHeartbeats == 3   \* heartbeat intervals told apart: this many stands for "or more"
MaxLog == 2          \* log entries appended by inbound frames since the last clear

(***************************************************************************)
(* Strings the handlers read: sequences of characters, so that trim() is   *)
(* computed.                                                               *)
(***************************************************************************)
Chars == {" ", "u"}

RECURSIVE SeqsUpTo(_)
SeqsUpTo(n) ==
    IF n = 0 THEN {<<>>}
    ELSE SeqsUpTo(n - 1) \cup
         {Append(s, c) : s \in {t \in SeqsUpTo(n - 1) : Len(t) = n - 1}, c \in Chars}

UrlInputs == SeqsUpTo(MaxUrlLen)

RECURSIVE TrimStart(_)
TrimStart(s) ==
    IF s # <<>> /\ Head(s) = " " THEN TrimStart(Tail(s)) ELSE s

RECURSIVE TrimEnd(_)
TrimEnd(s) ==
    IF s # <<>> /\ s[Len(s)] = " " THEN TrimEnd(SubSeq(s, 1, Len(s) - 1)) ELSE s

\* String.prototype.trim
Trim(s) == TrimEnd(TrimStart(s))

\* getConfig().url
getConfig(urlInput) == Trim(urlInput)

(***************************************************************************)
(* Requests.  A handler run suspended at `await fetch(...)` is at "fetch"; *)
(* one suspended at `await resp.json()` is at "jsonOk" or "jsonBad", by    *)
(* the resp.ok of the response it holds.                                   *)
(***************************************************************************)
ApiKinds == {"generate", "auto-publish", "publish"}
CloudKinds == {"dispatch", "runs"}
Kinds == ApiKinds \cup CloudKinds
Stages == {"fetch", "jsonOk", "jsonBad"}

JsonStage(ok) == IF ok THEN "jsonOk" ELSE "jsonBad"

\* handler runs of kind k that have issued their request and not yet finished
Pending(k) == inflight[k]["fetch"] + inflight[k]["jsonOk"] + inflight[k]["jsonBad"]

Issue(k) == [inflight EXCEPT ![k]["fetch"] = @ + 1]
Settle(k, ok) == [inflight EXCEPT ![k]["fetch"] = @ - 1, ![k][JsonStage(ok)] = @ + 1]
Finish(k, stage) == [inflight EXCEPT ![k][stage] = @ - 1]

\* the generated artifacts a /api/generate response can carry
Artifacts == {"a1", "a2"}
\* response bodies {success, error?, ...}; error "" stands for an absent error
Bodies == [success : BOOLEAN, error : {"", "server error"}, artifact : Artifacts]

(***************************************************************************)
(* UI helpers of src/api/static/app.js                                     *)
(***************************************************************************)
HtmlProcessing == "spinner processing"
HtmlManual == "manual generate"
HtmlAuto == "auto publish"
HtmlPublish == "confirm publish"
HtmlPublishing == "spinner publishing"
HtmlPublished == "published"

\* showToast(message): the text is set and the toast shown
showToast(message) == toast' = [text |-> message, show |-> TRUE]

\* mutant of setProcessing: only the manual button follows the flag
setProcessingManualOnly(state) ==
    /\ isProcessing' = state
    /\ btnManual' = [disabled |-> state,
                     html |-> IF state THEN HtmlProcessing ELSE HtmlManual]
    /\ btnAuto' = [disabled |-> FALSE, html |-> HtmlAuto]
    /\ progressActive' = state

\* setProcessing(state)
setProcessing(state) ==
    /\ isProcessing' = state
    /\ btnManual' = [disabled |-> state,
                     html |-> IF state THEN HtmlProcessing ELSE HtmlManual]
    /\ btnAuto' = [disabled |-> state,
                   html |-> IF state THEN HtmlProcessing ELSE HtmlAuto]
    /\ progressActive' = state

\* mutant of resetPublishButton: a published button is left as it is
resetPublishButtonUnlessPublished(btn) ==
    IF btn.html = HtmlPublished THEN btn ELSE [disabled |-> FALSE, html |-> HtmlPublish]

\* the part of showPreview(data) that re-arms the publish button
resetPublishButton(btn) == [disabled |-> FALSE, html |-> HtmlPublish]

\* showPreview(data)
showPreview(data) ==
    /\ previewData' = data.artifact
    /\ btnPublish' = resetPublishButton(btnPublish)
    /\ previewActive' = TRUE

\* `${data.error || fallback}` of the failure toasts
ErrorText(data, fallback) == IF data.error # "" THEN data.error ELSE fallback

(***************************************************************************)
(* handleManual                                                            *)
(***************************************************************************)
\* mutant of handleManual: the log is cleared before the URL is checked
handleManualClearsFirst(urlInput) ==
    IF getConfig(urlInput) = <<>>
    THEN /\ gate' = "invalid"
         /\ showToast("enter the article link first")
         /\ logContainer' = <<>>
         /\ UNCHANGED <<isProcessing, btnManual, btnAuto, btnPublish, progressActive,
                        logPanelActive, previewActive, previewData, inflight>>
    ELSE /\ gate' = "passed"
         /\ setProcessing(TRUE)
         /\ logPanelActive' = TRUE
         /\ previewActive' = FALSE
         /\ logContainer' = <<"manual mode start">>
         /\ inflight' = Issue("generate")
         /\ UNCHANGED <<btnPublish, previewData, toast>>

\* entry to `await fetch('/api/generate')`
handleManual(urlInput) ==
    IF getConfig(urlInput) = <<>>
    THEN /\ gate' = "invalid"
         /\ showToast("enter the article link first")
         /\ UNCHANGED <<launcherVars, inflight>>
    ELSE /\ gate' = "passed"
         /\ setProcessing(TRUE)
         /\ logPanelActive' = TRUE
         /\ previewActive' = FALSE
         /\ logContainer' = <<"manual mode start">>
         /\ inflight' = Issue("generate")
         /\ UNCHANGED <<btnPublish, previewData, toast>>

\* `await fetch` resolved: on to `await resp.json()`
handleManualFetched(ok) ==
    /\ inflight["generate"]["fetch"] > 0
    /\ inflight' = Settle("generate", ok)
    /\ UNCHANGED <<launcherVars, toast>>

\* `await resp.json()` resolved: the if/else, then finally
handleManualParsed(ok, data) ==
    /\ inflight["generate"][JsonStage(ok)] > 0
    /\ inflight' = Finish("generate", JsonStage(ok))
    /\ IF ok /\ data.success
       THEN /\ showPreview(data)
            /\ showToast("generated, please review")
       ELSE /\ showToast(ErrorText(data, "generation failed"))
            /\ UNCHANGED <<btnPublish, previewData, previewActive>>
    /\ setProcessing(FALSE)
    /\ UNCHANGED <<logPanelActive, logContainer>>

\* either await rejected: catch, then finally
handleManualRejected(stage) ==
    /\ inflight["generate"][stage] > 0
    /\ inflight' = Finish("generate", stage)
    /\ showToast("request failed, is the backend running")
    /\ setProcessing(FALSE)
    /\ UNCHANGED <<btnPublish, previewData, previewActive, logPanelActive, logContainer>>

(***************************************************************************)
(* handleAuto                                                              *)
(***************************************************************************)
\* mutant of handleAuto: confirm()'s answer is not looked at
handleAutoUngated(urlInput, accepted) ==
    IF getConfig(urlInput) = <<>>
    THEN /\ showToast("enter the article link first")
         /\ gate' = "invalid"
         /\ UNCHANGED <<launcherVars, inflight>>
    ELSE /\ gate' = IF accepted THEN "accepted" ELSE "declined"
         /\ setProcessing(TRUE)
         /\ logPanelActive' = TRUE
         /\ previewActive' = FALSE
         /\ logContainer' = <<"auto publish mode start">>
         /\ inflight' = Issue("auto-publish")
         /\ UNCHANGED <<btnPublish, previewData, toast>>

\* entry to `await fetch('/api/auto-publish')`; accepted is confirm()'s answer
handleAuto(urlInput, accepted) ==
    IF getConfig(urlInput) = <<>>
    THEN /\ showToast("enter the article link first")
         /\ gate' = "invalid"
         /\ UNCHANGED <<launcherVars, inflight>>
    ELSE IF ~accepted
    THEN /\ gate' = "declined"
         /\ UNCHANGED <<launcherVars, inflight, toast>>
    ELSE /\ gate' = "accepted"
         /\ setProcessing(TRUE)
         /\ logPanelActive' = TRUE
         /\ previewActive' = FALSE
         /\ logContainer' = <<"auto publish mode start">>
         /\ inflight' = Issue("auto-publish")
         /\ UNCHANGED <<btnPublish, previewData, toast>>

handleAutoFetched(ok) ==
    /\ inflight["auto-publish"]["fetch"] > 0
    /\ inflight' = Settle("auto-publish", ok)
    /\ UNCHANGED <<launcherVars, toast>>

handleAutoParsed(ok, data) ==
    /\ inflight["auto-publish"][JsonStage(ok)] > 0
    /\ inflight' = Finish("auto-publish", JsonStage(ok))
    /\ IF ok /\ data.success
       THEN showToast("auto publish succeeded")
       ELSE showToast(ErrorText(data, "publish failed"))
    /\ setProcessing(FALSE)
    /\ UNCHANGED <<btnPublish, previewData, previewActive, logPanelActive, logContainer>>

handleAutoRejected(stage) ==
    /\ inflight["auto-publish"][stage] > 0
    /\ inflight' = Finish("auto-publish", stage)
    /\ showToast("request failed")
    /\ setProcessing(FALSE)
    /\ UNCHANGED <<btnPublish, previewData, previewActive, logPanelActive, logContainer>>

(***************************************************************************)
(* handlePublish                                                           *)
(***************************************************************************)
\* entry to `await fetch('/api/publish')`; accepted is confirm()'s answer
handlePublish(accepted) ==
    IF ~accepted
    THEN /\ gate' = "declined"
         /\ UNCHANGED <<launcherVars, inflight, toast>>
    ELSE /\ gate' = "accepted"
         /\ btnPublish' = [disabled |-> TRUE, html |-> HtmlPublishing]
         /\ inflight' = Issue("publish")
         /\ UNCHANGED <<isProcessing, btnManual, btnAuto, progressActive, logPanelActive,
                        previewActive, previewData, logContainer, toast>>

handlePublishFetched(ok) ==
    /\ inflight["publish"]["fetch"] > 0
    /\ inflight' = Settle("publish", ok)
    /\ UNCHANGED <<launcherVars, toast>>

handlePublishParsed(ok, data) ==
    /\ inflight["publish"][JsonStage(ok)] > 0
    /\ inflight' = Finish("publish", JsonStage(ok))
    /\ IF ok /\ data.success
       THEN /\ showToast("published")
            /\ btnPublish' = [btnPublish EXCEPT !.html = HtmlPublished]
       ELSE /\ showToast(ErrorText(data, "publish failed"))
            /\ btnPublish' = [disabled |-> FALSE, html |-> HtmlPublish]
    /\ UNCHANGED <<isProcessing, btnManual, btnAuto, progressActive, logPanelActive,
                   previewActive, previewData, logContainer>>

handlePublishRejected(stage) ==
    /\ inflight["publish"][stage] > 0
    /\ inflight' = Finish("publish", stage)
    /\ showToast("request failed")
    /\ btnPublish' = [disabled |-> FALSE, html |-> HtmlPublish]
    /\ UNCHANGED <<isProcessing, btnManual, btnAuto, progressActive, logPanelActive,
                   previewActive, previewData, logContainer>>

\* the timer of showToast: setTimeout(() => toast.classList.remove('show'), 3000)
toastTimeout ==
    /\ toast.show
    /\ toast' = [toast EXCEPT !.show = FALSE]

(***************************************************************************)
(* src/docs/app.js: the cloud page                                         *)
(***************************************************************************)
RefreshDelay == 3000

\* what the user can type into #repoInput and #patInput
SettingInputs == {<<>>, <<" ">>, <<"a">>, <<"b", " ">>}
\* what localStorage can hold under a key: nothing, or a value an earlier
\* saveSettings wrote
StoredValues == {Trim(v) : v \in SettingInputs}

\* the workflow_runs of a run list response; "malformed" is a body without them
RunLists == {<<>>, <<"run 2", "run 1">>}
RunBodies == [hasRuns : {TRUE}, workflow_runs : RunLists]
                 \cup {[hasRuns |-> FALSE, workflow_runs |-> <<>>]}

\* the {message} body of a failed dispatch; "" stands for an absent message
ErrorBodies == {"", "Bad credentials"}

HtmlTrigger == "trigger cloud publish"
HtmlSending == "sending"

\* getSettings()
getSettings == [repo |-> storage.xhs_repo, pat |-> storage.xhs_pat]

\* showSettings()
showSettings == settingsPanel' = [open |-> TRUE, arrow |-> "up"]

\* mutant of loadRuns: only the token is required, as in the callers' checks
loadRunsPatOnly(store, fl) ==
    IF store.xhs_pat = <<>>
    THEN fl
    ELSE [fl EXCEPT !["runs"]["fetch"] = @ + 1]

\* loadRuns(), entry to `await fetch(.../actions/runs)`: the requests in flight
\* after it is called with store persisted and fl in flight
loadRuns(store, fl) ==
    IF store.xhs_repo = <<>> \/ store.xhs_pat = <<>>
    THEN fl
    ELSE [fl EXCEPT !["runs"]["fetch"] = @ + 1]

\* loadRuns: `await fetch` resolved
loadRunsFetched(ok) ==
    /\ inflight["runs"]["fetch"] > 0
    /\ inflight' = IF ok THEN Settle("runs", TRUE) ELSE Finish("runs", "fetch")
    /\ UNCHANGED <<cloudVars, toast>>

\* loadRuns: `await resp.json()` resolved; the list is cleared, then rendered
loadRunsParsed(data) ==
    /\ inflight["runs"]["jsonOk"] > 0
    /\ inflight' = Finish("runs", "jsonOk")
    /\ runsView' = IF ~data.hasRuns THEN [text |-> "", items |-> <<>>]
                   ELSE IF Len(data.workflow_runs) = 0
                   THEN [text |-> "no runs yet", items |-> <<>>]
                   ELSE [text |-> "", items |-> data.workflow_runs]
    /\ UNCHANGED <<storage, repoInput, patInput, settingsPanel, btnTrigger, statusMsg,
                   refreshTimers, toast>>

\* loadRuns: either await rejected; the catch only logs to the console
loadRunsRejected(stage) ==
    /\ stage \in {"fetch", "jsonOk"}
    /\ inflight["runs"][stage] > 0
    /\ inflight' = Finish("runs", stage)
    /\ UNCHANGED <<cloudVars, toast>>

\* mutant of saveSettings: both keys are written whatever the trimmed values
saveSettingsWritesAll(repoValue, patValue) ==
    LET repo == Trim(repoValue)
        pat == Trim(patValue)
        written == [xhs_repo |-> repo, xhs_pat |-> pat]
    IN  /\ storage' = written
        /\ showToast("settings saved")
        /\ inflight' = IF repo # <<>> /\ pat # <<>>
                       THEN loadRuns(written, inflight)
                       ELSE inflight
        /\ UNCHANGED <<settingsPanel, btnTrigger, statusMsg, runsView, refreshTimers>>

\* saveSettings(), with the two input values it reads
saveSettings(repoValue, patValue) ==
    LET repo == Trim(repoValue)
        pat == Trim(patValue)
        written == [xhs_repo |-> IF repo # <<>> THEN repo ELSE storage.xhs_repo,
                    xhs_pat |-> IF pat # <<>> THEN pat ELSE storage.xhs_pat]
    IN  /\ storage' = written
        /\ showToast("settings saved")
        /\ inflight' = IF repo # <<>> /\ pat # <<>>
                       THEN loadRuns(written, inflight)
                       ELSE inflight
        /\ UNCHANGED <<settingsPanel, btnTrigger, statusMsg, runsView, refreshTimers>>

\* the click handler of #toggleSettings
toggleSettings ==
    /\ settingsPanel' = [open |-> ~settingsPanel.open,
                         arrow |-> IF ~settingsPanel.open THEN "up" ELSE "down"]
    /\ UNCHANGED <<storage, repoInput, patInput, btnTrigger, statusMsg, runsView,
                   refreshTimers, toast, inflight>>

\* triggerAction(), entry to `await fetch(.../dispatches)`
triggerAction(urlInput) ==
    IF getSettings.repo = <<>> \/ getSettings.pat = <<>>
    THEN /\ gate' = "invalid"
         /\ showToast("configure repo and PAT first")
         /\ showSettings
         /\ UNCHANGED <<storage, repoInput, patInput, btnTrigger, statusMsg, runsView,
                        refreshTimers, inflight>>
    ELSE IF Trim(urlInput) = <<>>
    THEN /\ gate' = "invalid"
         /\ showToast("enter the article link")
         /\ UNCHANGED <<cloudVars, inflight>>
    ELSE /\ gate' = "passed"
         /\ btnTrigger' = [disabled |-> TRUE, html |-> HtmlSending]
         /\ inflight' = Issue("dispatch")
         /\ UNCHANGED <<storage, repoInput, patInput, settingsPanel, statusMsg, runsView,
                        refreshTimers, toast>>

\* mutant of triggerActionFetched: the list is refreshed at once, not by a timer
triggerActionFetchedRefreshesNow(ok) ==
    /\ inflight["dispatch"]["fetch"] > 0
    /\ IF ok
       THEN /\ showToast("dispatch sent")
            /\ statusMsg' = "dispatch sent, wait for the list to refresh"
            /\ refreshTimers' = refreshTimers
            /\ btnTrigger' = [disabled |-> FALSE, html |-> HtmlTrigger]
            /\ inflight' = loadRuns(storage, Finish("dispatch", "fetch"))
       ELSE /\ inflight' = Settle("dispatch", FALSE)
            /\ UNCHANGED <<toast, statusMsg, refreshTimers, btnTrigger>>
    /\ UNCHANGED <<storage, repoInput, patInput, settingsPanel, runsView>>

\* triggerAction: `await fetch` resolved
triggerActionFetched(ok) ==
    /\ inflight["dispatch"]["fetch"] > 0
    /\ IF ok
       THEN /\ showToast("dispatch sent")
            /\ statusMsg' = "dispatch sent, wait for the list to refresh"
            /\ refreshTimers' = Append(refreshTimers, RefreshDelay)
            /\ btnTrigger' = [disabled |-> FALSE, html |-> HtmlTrigger]
            /\ inflight' = Finish("dispatch", "fetch")
       ELSE /\ inflight' = Settle("dispatch", FALSE)
            /\ UNCHANGED <<toast, statusMsg, refreshTimers, btnTrigger>>
    /\ UNCHANGED <<storage, repoInput, patInput, settingsPanel, runsView>>

\* triggerAction: `await resp.json()` of a failed dispatch resolved, then finally
triggerActionParsed(message) ==
    /\ inflight["dispatch"]["jsonBad"] > 0
    /\ inflight' = Finish("dispatch", "jsonBad")
    /\ showToast(IF message # "" THEN "send failed: Bad credentials"
                                 ELSE "send failed: resp.status")
    /\ statusMsg' = IF message # "" THEN "error: Bad credentials" ELSE "error: undefined"
    /\ btnTrigger' = [disabled |-> FALSE, html |-> HtmlTrigger]
    /\ UNCHANGED <<storage, repoInput, patInput, settingsPanel, runsView, refreshTimers>>

\* triggerAction: either await rejected: catch, then finally
triggerActionRejected(stage) ==
    /\ stage \in {"fetch", "jsonBad"}
    /\ inflight["dispatch"][stage] > 0
    /\ inflight' = Finish("dispatch", stage)
    /\ showToast("network error")
    /\ btnTrigger' = [disabled |-> FALSE, html |-> HtmlTrigger]
    /\ UNCHANGED <<storage, repoInput, patInput, settingsPanel, statusMsg, runsView,
                   refreshTimers>>

\* the timer set by triggerAction fires: loadRuns()
refreshTimerFires ==
    /\ refreshTimers # <<>>
    /\ refreshTimers' = Tail(refreshTimers)
    /\ inflight' = loadRuns(storage, inflight)
    /\ UNCHANGED <<storage, repoInput, patInput, settingsPanel, btnTrigger, statusMsg,
                   runsView, toast>>

\* the 30000 ms interval of setupEventListeners fires
autoRefresh ==
    /\ inflight' = IF getSettings.pat # <<>> THEN loadRuns(storage, inflight) ELSE inflight
    /\ UNCHANGED <<cloudVars, toast>>

(***************************************************************************)
(* src/api/static/app.js: the Session Controller                           *)
(*                                                                         *)
(* The browser's WebSocket is the environment.  A connection that ends     *)
(* gets readyState CLOSED and then its events: error (if it failed) and    *)
(* close, close being the last event of a socket.  connectWebSocket only   *)
(* runs at load and from the timer a socket's onclose handler set, so the  *)
(* socket it replaces in `ws` has no event left.                           *)
(***************************************************************************)
ReconnectDelay == 3000
HeartbeatPeriod == 30000

\* inbound frames, after JSON.parse: {type, message} | {type, value} | others
LogMessages == {"m1", "m2"}
\* progress values in tenths: -5, 42.5 and 150
ProgressValues == {-50, 425, 1500}
Frames == [type : {"log"}, message : LogMessages, value : {0}]
             \cup [type : {"progress"}, message : {""}, value : ProgressValues]
             \cup [type : {"status"}, message : {"m1"}, value : {0}]

\* the step received no frame
NoFrame == [type |-> "none", message |-> "", value |-> 0]

\* Math.round of a value in tenths: the nearest integer, halves rounded up
MathRound(tenths) == (tenths + 5) \div 10

\* new WebSocket(wsUrl)
NewSocket == [readyState |-> "CONNECTING", events |-> <<>>]

\* connectWebSocket(): a new socket replaces ws, its handlers are attached and
\* one more heartbeat interval is started (none is ever cleared)
connectWebSocket ==
    /\ ws' = NewSocket
    /\ heartbeatTimers' = IF Len(heartbeatTimers) < MaxHeartbeats
                          THEN Append(heartbeatTimers, HeartbeatPeriod)
                          ELSE heartbeatTimers

\* ws.onopen
onopen ==
    /\ connectionStatus' = "connected"
    /\ statusDot' = "success"
    /\ UNCHANGED <<reconnectTimers, heartbeatTimers, progressBar, progressText,
                   progressActive, logContainer>>

\* appendLog(msg)
appendLog(msg) == logContainer' = Append(logContainer, msg)

\* updateProgress(value)
updateProgress(value) ==
    /\ progressActive' = TRUE
    /\ progressBar' = value
    /\ progressText' = MathRound(value)

\* mutant of onmessage: every frame that is not a progress frame is logged
onmessageLogsUnknown(data) ==
    /\ IF data.type = "progress"
       THEN /\ updateProgress(data.value)
            /\ UNCHANGED logContainer
       ELSE /\ appendLog(data.message)
            /\ UNCHANGED <<progressActive, progressBar, progressText>>
    /\ UNCHANGED <<connectionStatus, statusDot, reconnectTimers, heartbeatTimers>>

\* ws.onmessage
onmessage(data) ==
    /\ IF data.type = "log"
       THEN /\ appendLog(data.message)
            /\ UNCHANGED <<progressActive, progressBar, progressText>>
       ELSE IF data.type = "progress"
       THEN /\ updateProgress(data.value)
            /\ UNCHANGED logContainer
       ELSE UNCHANGED <<logContainer, progressActive, progressBar, progressText>>
    /\ UNCHANGED <<connectionStatus, statusDot, reconnectTimers, heartbeatTimers>>

\* mutant of onclose: no reconnect once the heartbeat count shows two attempts
oncloseGivesUp ==
    /\ connectionStatus' = "disconnected, reconnecting"
    /\ statusDot' = "danger"
    /\ reconnectTimers' = IF Len(heartbeatTimers) < 2
                          THEN Append(reconnectTimers, ReconnectDelay)
                          ELSE reconnectTimers
    /\ UNCHANGED <<heartbeatTimers, progressBar, progressText, progressActive,
                   logContainer>>

\* mutant of onclose: after an error the reconnect is left to the error handler
oncloseCleanOnly ==
    /\ connectionStatus' = "disconnected, reconnecting"
    /\ statusDot' = "danger"
    /\ reconnectTimers' = IF connectionStatus = "connection failed"
                          THEN reconnectTimers
                          ELSE Append(reconnectTimers, ReconnectDelay)
    /\ UNCHANGED <<heartbeatTimers, progressBar, progressText, progressActive,
                   logContainer>>

\* ws.onclose
onclose ==
    /\ connectionStatus' = "disconnected, reconnecting"
    /\ statusDot' = "danger"
    /\ reconnectTimers' = Append(reconnectTimers, ReconnectDelay)
    /\ UNCHANGED <<heartbeatTimers, progressBar, progressText, progressActive,
                   logContainer>>

\* mutant of onerror: the error handler schedules a reconnect as well
onerrorReconnects ==
    /\ connectionStatus' = "connection failed"
    /\ statusDot' = "danger"
    /\ reconnectTimers' = Append(reconnectTimers, ReconnectDelay)
    /\ UNCHANGED <<heartbeatTimers, progressBar, progressText, progressActive,
                   logContainer>>

\* ws.onerror
onerror ==
    /\ connectionStatus' = "connection failed"
    /\ statusDot' = "danger"
    /\ UNCHANGED <<reconnectTimers, heartbeatTimers, progressBar, progressText,
                   progressActive, logContainer>>

\* mutant of heartbeatTick: the ping is sent whatever the readyState
heartbeatTickUnchecked == heartbeat' = "sent"

\* the callback of the heartbeat setInterval
heartbeatTick ==
    heartbeat' = IF ws.readyState = "OPEN" THEN "sent" ELSE "skipped"

(***************************************************************************)
(* src/api/static/sw.js and src/docs/sw.js: the Resource Cache             *)
(*                                                                         *)
(* A URL is the sequence of its parts, so that String.prototype.includes   *)
(* is computed as a search for a run of parts.                             *)
(***************************************************************************)
CACHE_NAME == "xhs-publisher-v1"
\* the cache of an earlier generation of the worker
OldCacheName == "xhs-publisher-v0"

ApiOrigin == <<"http://", "localhost:8000">>
DocsScope == <<"https://", "user.github.io", "/", "xhs-publisher", "/">>

\* URLS_TO_CACHE, resolved against the worker's location
URLS_TO_CACHE ==
    IF page = "api"
    THEN {ApiOrigin \o <<"/">>,
          ApiOrigin \o <<"/", "static", "/", "style.css">>,
          ApiOrigin \o <<"/", "static", "/", "app.js">>,
          ApiOrigin \o <<"/", "static", "/", "manifest.json">>}
    ELSE {DocsScope,
          DocsScope \o <<"index.html">>,
          DocsScope \o <<"style.css">>,
          DocsScope \o <<"app.js">>,
          DocsScope \o <<"manifest.json">>,
          DocsScope \o <<"icon-192.png">>,
          DocsScope \o <<"icon-512.png">>}

\* requests of the page that are not in the manifest
OtherRequests ==
    IF page = "api"
    THEN {ApiOrigin \o <<"/", "api", "/", "config">>,
          ApiOrigin \o <<"/", "api", "/", "generate">>,
          ApiOrigin \o <<"/", "ws", "/", "logs">>,
          ApiOrigin \o <<"/", "static", "/", "api", "/", "app.js">>,
          ApiOrigin \o <<"/", "output", "/", "page1.png">>}
    ELSE {<<"https://", "api.github.com", "/", "repos", "/", "r", "/", "dispatches">>,
          <<"https://", "api.github.com", "/", "repos", "/", "r", "/", "actions", "/", "runs">>,
          DocsScope \o <<"api", "/", "config">>,
          DocsScope \o <<"sw.js">>}

Requests == URLS_TO_CACHE \cup OtherRequests

\* String.prototype.includes: part occurs in s as a run of consecutive parts
Includes(s, part) ==
    \E i \in 1..(Len(s) - Len(part) + 1) : SubSeq(s, i, i + Len(part) - 1) = part

\* the test of the fetch handler that leaves a request to the browser
Bypassed(url) ==
    IF page = "api"
    THEN Includes(url, <<"/", "api", "/">>) \/ Includes(url, <<"/", "ws", "/">>)
    ELSE Includes(url, <<"api.github.com">>)

\* caches.match(request): some cache holds the request
CachesMatch(url) == \E k \in DOMAIN cacheStorage : url \in cacheStorage[k]

\* what the browser's own fetch gives
NetworkFetch == IF online THEN "network" ELSE "failed"

\* mutant of FetchHandler: every request is answered through caches.match
FetchHandlerNoBypass(url) ==
    [url |-> url, online |-> online, intercepted |-> TRUE,
     source |-> IF CachesMatch(url) THEN "cache" ELSE NetworkFetch]

\* the fetch handler: the event it produces for a request
FetchHandler(url) ==
    IF Bypassed(url)
    THEN [url |-> url, online |-> online, intercepted |-> FALSE, source |-> NetworkFetch]
    ELSE [url |-> url, online |-> online, intercepted |-> TRUE,
          source |-> IF CachesMatch(url) THEN "cache" ELSE NetworkFetch]

\* mutant of FetchHandlerStores: a response fetched after a cache miss is put
\* into the current cache (write-through)
FetchHandlerWriteThrough(url) ==
    IF ~Bypassed(url) /\ ~CachesMatch(url) /\ online /\ CACHE_NAME \in DOMAIN cacheStorage
    THEN [cacheStorage EXCEPT ![CACHE_NAME] = @ \cup {url}]
    ELSE cacheStorage

\* the fetch handler: the CacheStorage it leaves; it calls match and fetch only,
\* never put
FetchHandlerStores(url) == cacheStorage

\* the install handler: caches.open(CACHE_NAME) creates the cache, addAll
\* stores the whole manifest or, if one request fails, nothing; skipWaiting()
InstallHandler(allFetched) ==
    /\ swState = "installing"
    /\ IF online /\ allFetched
       THEN /\ cacheStorage' =
                 [k \in DOMAIN cacheStorage \cup {CACHE_NAME} |->
                     IF k = CACHE_NAME
                     THEN (IF k \in DOMAIN cacheStorage THEN cacheStorage[k] ELSE {})
                             \cup URLS_TO_CACHE
                     ELSE cacheStorage[k]]
            /\ swState' = "installed"
       ELSE /\ cacheStorage' =
                 [k \in DOMAIN cacheStorage \cup {CACHE_NAME} |->
                     IF k \in DOMAIN cacheStorage THEN cacheStorage[k] ELSE {}]
            /\ swState' = "redundant"
    /\ UNCHANGED <<online, lastFetch>>

\* the activate handler: every cache with another name is deleted
ActivateHandler ==
    /\ swState = "installed"
    /\ cacheStorage' = [k \in DOMAIN cacheStorage \cap {CACHE_NAME} |-> cacheStorage[k]]
    /\ swState' = "activated"
    /\ UNCHANGED <<online, lastFetch>>

\* a fetch event of the controlled page
FetchEvent ==
    /\ swState = "activated"
    /\ \E url \in Requests :
          /\ lastFetch' = FetchHandler(url)
          /\ cacheStorage' = FetchHandlerStores(url)
    /\ UNCHANGED <<swState, online>>

\* the network comes or goes
NetworkChange ==
    /\ online' = ~online
    /\ UNCHANGED <<swState, cacheStorage, lastFetch>>

\* the worker at registration: an earlier generation may have left its cache
InitCache ==
    /\ swState = "installing"
    /\ online \in BOOLEAN
    /\ \/ cacheStorage = <<>>
       \/ \E old \in {{}, URLS_TO_CACHE, Requests} :
             cacheStorage = [k \in {OldCacheName} |-> old]
    /\ lastFetch = [url |-> <<>>, online |-> online, intercepted |-> FALSE,
                    source |-> "none"]

\* the worker left out: not yet registered, the network up
NoCache ==
    /\ swState = "installing"
    /\ online = TRUE
    /\ cacheStorage = <<>>
    /\ lastFetch = [url |-> <<>>, online |-> TRUE, intercepted |-> FALSE, source |-> "none"]

NextCache ==
    /\ \/ \E allFetched \in BOOLEAN : InstallHandler(allFetched)
       \/ ActivateHandler
       \/ FetchEvent
       \/ NetworkChange
    /\ UNCHANGED <<page, launcherVars, sessionVars, cloudVars, toast, inflight, gate>>

(***************************************************************************)
(* The backend page's Job Launcher as a state machine                      *)
(***************************************************************************)
\* the state after the DOMContentLoaded handler of src/api/static/app.js
InitLauncherPage ==
    /\ isProcessing = FALSE
    /\ btnManual = [disabled |-> FALSE, html |-> HtmlManual]
    /\ btnAuto = [disabled |-> FALSE, html |-> HtmlAuto]
    /\ btnPublish = [disabled |-> FALSE, html |-> HtmlPublish]
    /\ progressActive = FALSE
    /\ logPanelActive = FALSE
    /\ previewActive = FALSE
    /\ previewData = "none"
    /\ logContainer = <<>>
    /\ toast = [text |-> "", show |-> FALSE]
    /\ inflight = [k \in Kinds |-> [s \in Stages |-> 0]]

ClickManual ==
    /\ page = "api" /\ ~btnManual.disabled /\ Pending("generate") < MaxInFlight
    /\ \E urlInput \in UrlInputs : handleManual(urlInput)

ClickAuto ==
    /\ page = "api" /\ ~btnAuto.disabled /\ Pending("auto-publish") < MaxInFlight
    /\ \E urlInput \in UrlInputs, accepted \in BOOLEAN : handleAuto(urlInput, accepted)

ClickPublish ==
    /\ page = "api" /\ previewActive /\ ~btnPublish.disabled
    /\ Pending("publish") < MaxInFlight
    /\ \E accepted \in BOOLEAN : handlePublish(accepted)

ManualResponse ==
    /\ \/ \E ok \in BOOLEAN : handleManualFetched(ok)
       \/ \E ok \in BOOLEAN, data \in Bodies : handleManualParsed(ok, data)
       \/ \E stage \in Stages : handleManualRejected(stage)
    /\ gate' = "none"

AutoResponse ==
    /\ \/ \E ok \in BOOLEAN : handleAutoFetched(ok)
       \/ \E ok \in BOOLEAN, data \in Bodies : handleAutoParsed(ok, data)
       \/ \E stage \in Stages : handleAutoRejected(stage)
    /\ gate' = "none"

PublishResponse ==
    /\ \/ \E ok \in BOOLEAN : handlePublishFetched(ok)
       \/ \E ok \in BOOLEAN, data \in Bodies : handlePublishParsed(ok, data)
       \/ \E stage \in Stages : handlePublishRejected(stage)
    /\ gate' = "none"

ToastTimer ==
    /\ toastTimeout
    /\ gate' = "none"
    /\ UNCHANGED <<launcherVars, inflight>>

NextLauncher ==
    /\ \/ ClickManual
       \/ ClickAuto
       \/ ClickPublish
       \/ ManualResponse
       \/ AutoResponse
       \/ PublishResponse
       \/ ToastTimer
    /\ UNCHANGED <<page, sessionVars, cloudVars, cacheVars>>

(***************************************************************************)
(* The Session Controller as a state machine                               *)
(***************************************************************************)
\* the state after connectWebSocket() of the DOMContentLoaded handler
InitSessionPage ==
    /\ ws = NewSocket
    /\ connectionStatus = "connecting"
    /\ statusDot = "initial"
    /\ reconnectTimers = <<>>
    /\ heartbeatTimers = <<HeartbeatPeriod>>
    /\ progressBar = 0
    /\ progressText = 0
    /\ heartbeat = "none"
    /\ frame = NoFrame

\* the Session Controller's elements while the cloud page is loaded
NoSessionPage ==
    /\ ws = [readyState |-> "CLOSED", events |-> <<>>]
    /\ connectionStatus = "connecting"
    /\ statusDot = "initial"
    /\ reconnectTimers = <<>>
    /\ heartbeatTimers = <<>>
    /\ progressBar = 0
    /\ progressText = 0
    /\ heartbeat = "none"
    /\ frame = NoFrame

\* the handshake succeeds: readyState OPEN, the open event is dispatched
WsOpens ==
    /\ ws.readyState = "CONNECTING"
    /\ ws' = [ws EXCEPT !.readyState = "OPEN"]
    /\ onopen

\* the entries of the log that inbound frames appended: all but the start line
FrameEntries == Len(logContainer) - (IF logPanelActive THEN 1 ELSE 0)

\* a frame arrives on the open connection
WsMessage ==
    /\ ws.readyState = "OPEN"
    /\ \E data \in Frames :
          /\ data.type = "log" => FrameEntries < MaxLog
          /\ frame' = data
          /\ onmessage(data)
    /\ UNCHANGED ws

\* the server starts the closing handshake
WsClosing ==
    /\ ws.readyState = "OPEN"
    /\ ws' = [ws EXCEPT !.readyState = "CLOSING"]
    /\ UNCHANGED <<connectionStatus, statusDot, reconnectTimers, heartbeatTimers,
                   progressBar, progressText, progressActive, logContainer>>

\* the connection is closed cleanly: a close event is due
WsCloses ==
    /\ ws.readyState \in {"OPEN", "CLOSING"}
    /\ ws' = [readyState |-> "CLOSED", events |-> <<"close">>]
    /\ UNCHANGED <<connectionStatus, statusDot, reconnectTimers, heartbeatTimers,
                   progressBar, progressText, progressActive, logContainer>>

\* the connection fails (while connecting or later): error, then close are due
WsFails ==
    /\ ws.readyState \in {"CONNECTING", "OPEN", "CLOSING"}
    /\ ws' = [readyState |-> "CLOSED", events |-> <<"error", "close">>]
    /\ UNCHANGED <<connectionStatus, statusDot, reconnectTimers, heartbeatTimers,
                   progressBar, progressText, progressActive, logContainer>>

\* the error event is dispatched
WsErrorEvent ==
    /\ ws.events # <<>> /\ Head(ws.events) = "error"
    /\ ws' = [ws EXCEPT !.events = Tail(@)]
    /\ onerror

\* the close event is dispatched
WsCloseEvent ==
    /\ ws.events # <<>> /\ Head(ws.events) = "close"
    /\ ws' = [ws EXCEPT !.events = Tail(@)]
    /\ onclose

\* a reconnect timer fires: connectWebSocket()
ReconnectTimer ==
    /\ reconnectTimers # <<>>
    /\ reconnectTimers' = Tail(reconnectTimers)
    /\ connectWebSocket
    /\ UNCHANGED <<connectionStatus, statusDot, progressBar, progressText,
                   progressActive, logContainer>>

\* one of the heartbeat intervals fires
HeartbeatTimer ==
    /\ heartbeatTimers # <<>>
    /\ heartbeatTick
    /\ UNCHANGED <<ws, connectionStatus, statusDot, reconnectTimers, heartbeatTimers,
                   progressBar, progressText, progressActive, logContainer>>

NextSession ==
    /\ page = "api"
    /\ \/ HeartbeatTimer /\ frame' = NoFrame
       \/ WsMessage /\ heartbeat' = "none"
       \/ /\ \/ WsOpens
             \/ WsClosing
             \/ WsCloses
             \/ WsFails
             \/ WsErrorEvent
             \/ WsCloseEvent
             \/ ReconnectTimer
          /\ heartbeat' = "none"
          /\ frame' = NoFrame
    /\ UNCHANGED <<page, isProcessing, btnManual, btnAuto, btnPublish, logPanelActive,
                   previewActive, previewData, cloudVars, cacheVars, toast, inflight, gate>>

(***************************************************************************)
(* The cloud page as a state machine                                       *)
(***************************************************************************)
\* the state after the DOMContentLoaded handler of src/docs/app.js
InitCloudPage ==
    /\ storage \in [xhs_repo : StoredValues, xhs_pat : StoredValues]
    /\ repoInput = storage.xhs_repo
    /\ patInput = storage.xhs_pat
    /\ btnTrigger = [disabled |-> FALSE, html |-> HtmlTrigger]
    /\ statusMsg = ""
    /\ refreshTimers = <<>>
    /\ toast = [text |-> "", show |-> FALSE]
    /\ IF storage.xhs_pat # <<>>
       THEN /\ inflight = loadRuns(storage, [k \in Kinds |-> [s \in Stages |-> 0]])
            /\ runsView = [text |-> "placeholder", items |-> <<>>]
            /\ settingsPanel = [open |-> FALSE, arrow |-> "down"]
       ELSE /\ inflight = [k \in Kinds |-> [s \in Stages |-> 0]]
            /\ runsView = [text |-> "configure the PAT first", items |-> <<>>]
            /\ settingsPanel = [open |-> TRUE, arrow |-> "up"]

\* the cloud page's elements while the backend page is loaded
NoCloudPage ==
    /\ storage = [xhs_repo |-> <<>>, xhs_pat |-> <<>>]
    /\ repoInput = <<>>
    /\ patInput = <<>>
    /\ settingsPanel = [open |-> FALSE, arrow |-> "down"]
    /\ btnTrigger = [disabled |-> FALSE, html |-> HtmlTrigger]
    /\ statusMsg = ""
    /\ runsView = [text |-> "placeholder", items |-> <<>>]
    /\ refreshTimers = <<>>

\* the backend page's elements while the cloud page is loaded
NoLauncherPage ==
    /\ isProcessing = FALSE
    /\ btnManual = [disabled |-> FALSE, html |-> HtmlManual]
    /\ btnAuto = [disabled |-> FALSE, html |-> HtmlAuto]
    /\ btnPublish = [disabled |-> FALSE, html |-> HtmlPublish]
    /\ progressActive = FALSE
    /\ logPanelActive = FALSE
    /\ previewActive = FALSE
    /\ previewData = "none"
    /\ logContainer = <<>>

InitCloud ==
    /\ page = "docs"
    /\ InitCloudPage
    /\ NoLauncherPage
    /\ NoSessionPage
    /\ NoCache
    /\ gate = "none"

ClickToggleSettings ==
    /\ page = "docs"
    /\ toggleSettings
   

ChangeRepo ==
    /\ page = "docs" /\ Pending("runs") < MaxInFlight
    /\ \E v \in SettingInputs \ {repoInput} :
          /\ repoInput' = v
          /\ patInput' = patInput
          /\ saveSettings(v, patInput)
   

ChangePat ==
    /\ page = "docs" /\ Pending("runs") < MaxInFlight
    /\ \E v \in SettingInputs \ {patInput} :
          /\ patInput' = v
          /\ repoInput' = repoInput
          /\ saveSettings(repoInput, v)
   

ClickTrigger ==
    /\ page = "docs" /\ ~btnTrigger.disabled
    /\ Pending("dispatch") < MaxInFlight
    /\ Len(refreshTimers) + Pending("dispatch") < MaxTimers
    /\ \E urlInput \in UrlInputs : triggerAction(urlInput)
   

DispatchResponse ==
    \/ \E ok \in BOOLEAN : triggerActionFetched(ok)
    \/ \E message \in ErrorBodies : triggerActionParsed(message)
    \/ \E stage \in Stages : triggerActionRejected(stage)

RefreshTimer ==
    /\ page = "docs" /\ Pending("runs") < MaxInFlight
    /\ refreshTimerFires
   

AutoRefreshTimer ==
    /\ page = "docs" /\ Pending("runs") < MaxInFlight
    /\ autoRefresh
   

RunsResponse ==
    \/ \E ok \in BOOLEAN : loadRunsFetched(ok)
    \/ \E data \in RunBodies : loadRunsParsed(data)
    \/ \E stage \in Stages : loadRunsRejected(stage)

CloudToastTimer ==
    /\ page = "docs"
    /\ toastTimeout
   
    /\ UNCHANGED <<cloudVars, inflight>>

NextCloud ==
    /\ \/ ClickTrigger
       \/ /\ \/ ClickToggleSettings
             \/ ChangeRepo
             \/ ChangePat
             \/ DispatchResponse
             \/ RefreshTimer
             \/ AutoRefreshTimer
             \/ RunsResponse
             \/ CloudToastTimer
          /\ gate' = "none"
    /\ UNCHANGED <<page, launcherVars, sessionVars, cacheVars>>

SpecCloud == InitCloud /\ [][NextCloud]_vars

(***************************************************************************)
(* Specifications                                                          *)
(***************************************************************************)
\* the backend page after its DOMContentLoaded handler
InitLauncher ==
    /\ page = "api"
    /\ InitLauncherPage
    /\ InitSessionPage
    /\ NoCloudPage
    /\ NoCache
    /\ gate = "none"

\* the page with its Resource Cache: the worker of either page
InitWorker ==
    /\ \/ page = "api" /\ InitLauncherPage /\ InitSessionPage /\ NoCloudPage
       \/ page = "docs" /\ InitCloudPage /\ NoLauncherPage /\ NoSessionPage
    /\ gate = "none"
    /\ InitCache

\* job submission on either page: the backend page's Job Launcher and the cloud
\* page; the loaded page is chosen once
Init == InitLauncher \/ InitCloud

Next == NextLauncher \/ NextCloud

Spec == Init /\ [][Next]_vars

\* the backend page's Job Launcher and Preview/Publish flow
SpecLauncher == InitLauncher /\ [][NextLauncher]_vars

\* the backend page's Session Controller
SpecSession == InitLauncher /\ [][NextSession]_vars

\* the same, with every dispatched event and every set timer eventually handled
LiveSession ==
    /\ SpecSession
    /\ WF_vars(WsErrorEvent /\ NextSession)
    /\ WF_vars(WsCloseEvent /\ NextSession)
    /\ WF_vars(ReconnectTimer /\ NextSession)

\* the log and progress panel of the backend page: the Session Controller
\* together with the submissions that clear the log and start it anew
NextStream ==
    \/ NextSession
    \/ /\ \/ ClickManual
          \/ ClickAuto
          \/ ManualResponse
          \/ AutoResponse
       /\ heartbeat' = "none"
       /\ frame' = NoFrame
       /\ UNCHANGED <<page, ws, connectionStatus, statusDot, reconnectTimers,
                      heartbeatTimers, progressBar, progressText, cloudVars, cacheVars>>

SpecStream == InitLauncher /\ [][NextStream]_vars

\* the Resource Cache of either page
SpecCache == InitWorker /\ [][NextCache]_vars

(***************************************************************************)
(* Claims about job submission                                             *)
(***************************************************************************)
\* a request of kind k is issued in this step
Issued(k) == inflight'[k]["fetch"] = inflight[k]["fetch"] + 1

\* the requests of the backend page that are in flight, over all kinds
ApiPending == Pending("generate") + Pending("auto-publish") + Pending("publish")

\* C1: for every submission kind the processing flag is true exactly while a
\* request of that kind is in flight, and false otherwise, with the triggering
\* controls enabled again once nothing is in flight (on the cloud page, which
\* has no flag variable, the disabled trigger button stands for it).
C1_FlagTracksEverySubmission ==
    /\ page = "api" =>
          /\ isProcessing <=> ApiPending > 0
          /\ ApiPending = 0 => ~btnManual.disabled /\ ~btnAuto.disabled
    /\ page = "docs" => (btnTrigger.disabled <=> Pending("dispatch") > 0)

\* C2: at most one submission request of the backend page is in flight,
\* counted over /api/generate, /api/auto-publish and /api/publish together.
C2_SingleFlight == ApiPending <= 1

\* C3: a request to /api/auto-publish or /api/publish is issued only by a
\* handler run whose confirm() was accepted; a declined confirm() issues nothing
\* and leaves the flag, the buttons and all other state as they were; a cloud
\* dispatch is issued without any confirm().
C3_ConfirmationGate ==
    [][ /\ Issued("auto-publish") \/ Issued("publish") => gate' = "accepted"
        /\ gate' = "declined" => UNCHANGED <<launcherVars, cloudVars, inflight, toast>>
        /\ Issued("dispatch") => gate' = "passed" ]_vars

\* C3 witness: an accepted confirmation has just issued the publish request
C3_Witness ==
    /\ gate = "accepted"
    /\ inflight["publish"]["fetch"] = 1
    /\ btnPublish = [disabled |-> TRUE, html |-> HtmlPublishing]

\* C4 as stated: a failed validation changes nothing but the notice; the
\* settings panel too is as it was.
C4_ValidationChangesNothing ==
    [][ gate' = "invalid" => UNCHANGED <<launcherVars, cloudVars, inflight>> ]_vars

\* C4 amended: a failed validation issues no request and changes nothing but
\* the notice, except that a cloud dispatch attempted with a missing repo
\* identifier or access token also opens the settings panel.
C4_ValidationChangesOnlyNoticeAndPanel ==
    [][ gate' = "invalid" =>
          /\ toast'.show
          /\ UNCHANGED <<launcherVars, inflight, storage, repoInput, patInput,
                         btnTrigger, statusMsg, runsView, refreshTimers>>
          /\ IF page = "docs" /\ (storage.xhs_repo = <<>> \/ storage.xhs_pat = <<>>)
             THEN settingsPanel' = [open |-> TRUE, arrow |-> "up"]
             ELSE UNCHANGED settingsPanel ]_vars

\* C4 witness: a dispatch was refused for a missing repo identifier (the token
\* is stored, so the page loaded with the panel closed) and the panel is open
C4_Witness ==
    /\ page = "docs"
    /\ gate = "invalid"
    /\ storage.xhs_repo = <<>> /\ storage.xhs_pat # <<>>
    /\ toast = [text |-> "configure repo and PAT first", show |-> TRUE]
    /\ settingsPanel.open
    /\ Pending("dispatch") = 0

\* C5: whenever the publish button carries the "published" label it is disabled.
C5_PublishedIsDisabled ==
    btnPublish.html = HtmlPublished => btnPublish.disabled

\* the step in which handleManual's success branch, hence showPreview, runs
ShowPreviewRuns ==
    /\ inflight'["generate"]["jsonOk"] = inflight["generate"]["jsonOk"] - 1
    /\ toast' = [text |-> "generated, please review", show |-> TRUE]

\* C6: right after showPreview the publish button is enabled with its default
\* label, whatever it was before, and a second reset changes nothing more.
C6_ShowPreviewRearms ==
    [][ ShowPreviewRuns =>
          /\ btnPublish' = [disabled |-> FALSE, html |-> HtmlPublish]
          /\ resetPublishButton(btnPublish') = btnPublish'
          /\ resetPublishButton(resetPublishButton(btnPublish))
                = resetPublishButton(btnPublish) ]_vars

\* C6 witness: showPreview has re-armed the button while a publish request
\* is still in flight
C6_Witness ==
    /\ gate = "none"
    /\ toast = [text |-> "generated, please review", show |-> TRUE]
    /\ previewActive
    /\ Pending("publish") > 0
    /\ btnPublish = [disabled |-> FALSE, html |-> HtmlPublish]


\* C19: at most one request to /api/publish is in flight, and the publish
\* button is disabled while one is, whatever generate submissions and
\* responses come in between.
C19_SinglePublish ==
    /\ Pending("publish") <= 1
    /\ Pending("publish") > 0 => btnPublish.disabled

\* C20: the flag is true exactly while a generate or auto-publish request is
\* in flight; while it is true the manual and the auto button are disabled and
\* the preview panel is not active; while it is false both buttons are enabled.
C20_ButtonsFollowFlag ==
    /\ isProcessing <=> Pending("generate") + Pending("auto-publish") > 0
    /\ isProcessing => btnManual.disabled /\ btnAuto.disabled /\ ~previewActive
    /\ ~isProcessing => ~btnManual.disabled /\ ~btnAuto.disabled

\* C20 witness: a submission made from an open preview is in flight: the
\* buttons are disabled and the preview, still rendered, is hidden
C20_Witness ==
    /\ isProcessing
    /\ Pending("generate") + Pending("auto-publish") = 1
    /\ btnManual.disabled /\ btnAuto.disabled
    /\ previewData # "none"
    /\ ~previewActive
(***************************************************************************)
(* Claims about the Session Controller                                     *)
(***************************************************************************)
\* the current connection is closed and its close event has been handled
ClosedAndHandled == ws.readyState = "CLOSED" /\ ws.events = <<>>

\* C7: a connection that went to Closed has exactly one reconnect attempt
\* scheduled, with the 3000 ms delay, from the handling of its close event until
\* the timer fires; no timer is pending otherwise, so never more than one.
C7_OneReconnectPerClose ==
    /\ Len(reconnectTimers) = IF ClosedAndHandled THEN 1 ELSE 0
    /\ \A i \in 1..Len(reconnectTimers) : reconnectTimers[i] = ReconnectDelay

\* C7 witness: a reconnected socket failed, error and close were handled, and
\* the one reconnect timer is pending
C7_Witness ==
    /\ ClosedAndHandled
    /\ Len(heartbeatTimers) >= 2
    /\ connectionStatus = "disconnected, reconnecting"
    /\ reconnectTimers = <<ReconnectDelay>>

\* C8: a heartbeat firing sends its ping exactly when the current connection
\* is Open; it sends nothing while Connecting, Closing or Closed.
C8_PingOnlyWhenOpen ==
    heartbeat # "none" => (heartbeat = "sent" <=> ws.readyState = "OPEN")

\* C8 witness: a heartbeat fired after the connection went to Closed, before
\* the reconnect, and sent nothing
C8_Witness ==
    /\ heartbeat = "skipped"
    /\ ws.readyState = "CLOSED"
    /\ connectionStatus = "connected"
    /\ reconnectTimers = <<>>

\* C9: whenever the connection is Closed it is eventually Connecting again,
\* every scheduled attempt has the same 3000 ms delay, however many attempts
\* were made before.
C9_ReconnectsForever ==
    /\ (ws.readyState = "CLOSED") ~> (ws.readyState = "CONNECTING")
    /\ [](\A i \in 1..Len(reconnectTimers) : reconnectTimers[i] = ReconnectDelay)

\* C9 witness: connecting once more after attempts that all failed
C9_Witness ==
    /\ ws.readyState = "CONNECTING"
    /\ Len(heartbeatTimers) = MaxHeartbeats
    /\ connectionStatus = "disconnected, reconnecting"


\* the error handler has run for the current connection, its close event not yet
ErrorHandled == connectionStatus = "connection failed"

\* C14: an error on the connection, whether it came while Connecting or while
\* Open, leads to the reconnect cycle: when the error is handled the state is
\* Closed, and then a reconnect attempt gets scheduled.
C14_ErrorTriggersReconnect ==
    /\ [](ErrorHandled => ws.readyState = "CLOSED")
    /\ ErrorHandled ~> (ClosedAndHandled /\ reconnectTimers = <<ReconnectDelay>>)

\* C14 witness: a reconnected socket failed and its error event was handled;
\* the close event that schedules the reconnect is due
C14_Witness ==
    /\ ErrorHandled
    /\ ws = [readyState |-> "CLOSED", events |-> <<"close">>]
    /\ Len(heartbeatTimers) >= 2
    /\ reconnectTimers = <<>>

\* C16: the rendered progress is clamped: the bar width (in tenths of a
\* percent) and the percentage text are within 0 to 100 for every frame value.
C16_ProgressClamped ==
    /\ progressBar \in 0..1000
    /\ progressText \in 0..100

\* C18: at most one heartbeat interval is active, however many times the
\* connection was closed and re-established.
C18_OneHeartbeatTimer == Len(heartbeatTimers) <= 1

(***************************************************************************)
(* Claims about the log and progress panel                                 *)
(***************************************************************************)
\* the line handleManual or handleAuto puts into the cleared log
StartLines == {<<"manual mode start">>, <<"auto publish mode start">>}

\* C15: frames are handled in arrival order and by their type alone: a step
\* that receives a log frame appends its message, verbatim, at the end of the
\* log and a step that receives any other frame leaves the log as it is; a
\* frame that is neither a log nor a progress frame leaves the progress value
\* too; a step that receives no frame leaves the log or clears it to the start
\* line.  So the log is the start line (if it was cleared) followed by the
\* messages of exactly the log frames received since, in arrival order.
C15_FramesInOrderByType ==
    [][/\ frame' # NoFrame =>
             /\ logContainer' = IF frame'.type = "log"
                                THEN Append(logContainer, frame'.message)
                                ELSE logContainer
             /\ frame'.type \notin {"log", "progress"} =>
                   /\ progressBar' = progressBar
                   /\ progressText' = progressText
                   /\ progressActive' = progressActive
       /\ frame' = NoFrame =>
             logContainer' = logContainer \/ logContainer' \in StartLines]_vars

\* C15 witness: after the start line the log frames m2 and m1 were received,
\* in that order, and then a frame of an unknown type
C15_Witness ==
    /\ frame = [type |-> "status", message |-> "m1", value |-> 0]
    /\ logContainer = <<"manual mode start", "m2", "m1">>
    /\ isProcessing
(***************************************************************************)
(* Claims about the Resource Cache                                         *)
(***************************************************************************)
\* a URL of the backend API or the log stream: it contains /api/ or is /ws/logs
ApiOrStreamUrl(url) ==
    \/ Includes(url, <<"/", "api", "/">>)
    \/ url = ApiOrigin \o <<"/", "ws", "/", "logs">>

FetchStep == swState = "activated" /\ lastFetch' # lastFetch

\* C17: the cache is write-once: handling a fetch (a hit, a miss that goes to
\* the network, or a bypassed request) leaves every cache as it is; the
\* entries of the current cache are those the install put there, the whole
\* manifest or nothing; after install the caches change only by activation
\* deleting those with another name.
C17_WriteOnce ==
    [][/\ FetchStep => cacheStorage' = cacheStorage
       /\ swState # "installing" /\ cacheStorage' # cacheStorage =>
             /\ swState = "installed" /\ swState' = "activated"
             /\ DOMAIN cacheStorage' = DOMAIN cacheStorage \cap {CACHE_NAME}
             /\ \A k \in DOMAIN cacheStorage' : cacheStorage'[k] = cacheStorage[k]
       /\ \A k \in DOMAIN cacheStorage' :
             k = CACHE_NAME => cacheStorage'[k] \in {{}, URLS_TO_CACHE}]_vars

\* C17 witness: a request outside the manifest missed the cache and was
\* answered by the network; the cache still holds the manifest only
C17_Witness ==
    /\ swState = "activated"
    /\ lastFetch.intercepted
    /\ lastFetch.source = "network"
    /\ lastFetch.url \notin URLS_TO_CACHE
    /\ cacheStorage = [k \in {CACHE_NAME} |-> URLS_TO_CACHE]
(***************************************************************************)
(* Claims about the cloud page                                             *)
(***************************************************************************)
\* the step is a change event of #repoInput or #patInput: saveSettings runs
SaveStep == repoInput' # repoInput \/ patInput' # patInput

\* C11: saveSettings writes exactly the fields whose entered value is non-empty
\* after trimming, each with its trimmed value, and leaves every other
\* persisted field at its previous value; getSettings after the save returns
\* the written values.
C11_SaveWritesNonEmptyOnly ==
    [][SaveStep =>
          LET repo == Trim(repoInput')
              pat == Trim(patInput')
          IN  /\ storage'.xhs_repo = (IF repo # <<>> THEN repo ELSE storage.xhs_repo)
              /\ storage'.xhs_pat = (IF pat # <<>> THEN pat ELSE storage.xhs_pat)
              /\ getSettings'.repo = (IF repo # <<>> THEN repo ELSE getSettings.repo)
              /\ getSettings'.pat = (IF pat # <<>> THEN pat ELSE getSettings.pat)]_vars

\* C11 witness: saved with a blank repo field and a new token: the stored repo
\* is the earlier one, the stored token the trimmed new one
C11_Witness ==
    /\ toast.text = "settings saved"
    /\ repoInput = <<" ">>
    /\ patInput = <<"b", " ">>
    /\ storage = [xhs_repo |-> <<"a">>, xhs_pat |-> <<"b">>]

\* the step is the 2xx resolution of a dispatch
DispatchSucceeds ==
    /\ Pending("dispatch")' < Pending("dispatch")
    /\ toast'.text = "dispatch sent"
    /\ statusMsg' = "dispatch sent, wait for the list to refresh"

\* the step issues a run list request
RunsRequested == inflight'["runs"]["fetch"] > inflight["runs"]["fetch"]

\* a successful dispatch sets exactly one refresh timer of 3000 ms and issues
\* no run list request itself; no other step sets one; a timer fires once and
\* issues one run list request
OneRefreshPerDispatch ==
    /\ DispatchSucceeds =>
          refreshTimers' = Append(refreshTimers, RefreshDelay) /\ ~RunsRequested
    /\ ~DispatchSucceeds =>
          \/ refreshTimers' = refreshTimers
          \/ /\ refreshTimers # <<>>
             /\ refreshTimers' = Tail(refreshTimers)
             /\ inflight'["runs"]["fetch"] = inflight["runs"]["fetch"] + 1
    /\ \A i \in 1..Len(refreshTimers) : refreshTimers[i] = RefreshDelay

\* C12 as stated: the refresh of a successful dispatch fires exactly once,
\* 3000 ms after the success, and no run list refresh fires between the success
\* and that moment.
C12_NoRefreshBeforeTimer ==
    [][/\ OneRefreshPerDispatch
       /\ refreshTimers # <<>> /\ refreshTimers' = refreshTimers => ~RunsRequested]_vars

\* C12 as amended: a successful dispatch schedules exactly one run list
\* refresh, 3000 ms after the success, and requests no run list itself; the
\* timer fires once.  (Refreshes of the 30000 ms interval or of a settings save
\* may fall in between.)
C12_OneRefreshScheduled == [][OneRefreshPerDispatch]_vars

\* C12 witness: the dispatch succeeded, its refresh is pending and the button
\* is enabled again
C12_Witness ==
    /\ refreshTimers = <<RefreshDelay>>
    /\ statusMsg = "dispatch sent, wait for the list to refresh"
    /\ toast = [text |-> "dispatch sent", show |-> TRUE]
    /\ btnTrigger = [disabled |-> FALSE, html |-> HtmlTrigger]
    /\ Pending("dispatch") = 0

\* the repo identifier or the access token is absent
SettingsMissing == getSettings.repo = <<>> \/ getSettings.pat = <<>>

\* C13: while the repo identifier or the access token is absent no request to
\* the CI provider (dispatch or run list) is issued or in flight, and a
\* dispatch attempt is blocked, with the notice, and leaves the settings panel
\* open.
C13_MissingSettingsBlock ==
    SettingsMissing =>
       /\ Pending("dispatch") = 0
       /\ Pending("runs") = 0
       /\ gate # "none" =>
             /\ gate = "invalid"
             /\ settingsPanel = [open |-> TRUE, arrow |-> "up"]
             /\ toast = [text |-> "configure repo and PAT first", show |-> TRUE]

\* C13 witness: with a token but no repo the page loaded with the panel
\* closed; the dispatch attempt was blocked and opened it
C13_Witness ==
    /\ gate = "invalid"
    /\ storage.xhs_repo = <<>>
    /\ storage.xhs_pat # <<>>
    /\ settingsPanel.open
    /\ toast.text = "configure repo and PAT first"
====
